---- MODULE Spec2Model ----
(***************************************************************************)
(* Verification model of two Qt Creator plugin sources:                    *)
(*   src/plugins/bazaar/bazaarclient.cpp    (BazaarClient)                 *)
(*   src/plugins/projectexplorer/makestep.cpp (MakeStep)                   *)
(*                                                                         *)
(* MakeStep and its MakeStepConfigWidget are objects: their fields are     *)
(* variables, their member functions and slots are actions.                *)
(* The Bazaar client consists of pure functions; each is an operator, and  *)
(* a call is one action that draws the inputs from bounded sets and stores *)
(* input and result.  Strings whose characters the code inspects (status   *)
(* lines, branch.conf lines) are sequences of one-character strings.       *)
(***************************************************************************)
EXTENDS Integers, Sequences, FiniteSets, TLC

VARIABLES
    qtNoDebug,   \* TRUE: built with QT_NO_DEBUG, Q_ASSERT expands to nothing
    pc,          \* "idle" | "done": position of the caller of the pure functions
    op,          \* the function called last
    input,       \* its arguments
    result,      \* what it returned
    \* MakeStep
    m_buildTargets,    \* QStringList
    m_makeArguments,   \* QString
    m_makeCommand,     \* QString, empty: the tool chain's make command
    m_clean,           \* bool
    settings,          \* the QVariantMap toMap returned last
    savedFrom,         \* history: the fields toMap read when it made settings
    \* what the step sees of its project
    stepBc,            \* buildConfiguration() of the step, or None
    activeBc,          \* target()->activeBuildConfiguration(), or None
    kitToolChain,      \* the C++ tool chain of target()->kit(), or None
    environment,       \* environment() of each build configuration
    buildDirectory,    \* buildDirectory() of each build configuration
    \* MakeStepConfigWidget
    m_summaryText,     \* QString
    makeLabel          \* text of m_ui->makeLabel

callVars == <<op, input, result>>
stepVars == <<m_buildTargets, m_makeArguments, m_makeCommand, m_clean>>
storeVars == <<settings, savedFrom>>
projectVars == <<stepBc, activeBc, kitToolChain, environment, buildDirectory>>
widgetVars == <<m_summaryText, makeLabel>>
makeVars == <<stepVars, storeVars, projectVars, widgetVars>>

vars == <<qtNoDebug, pc, callVars, makeVars>>

None == "none"
BuildConfigurations == {"bc1", "bc2"}
ToolChains == {"gcc", "msvc", "mingw"}

\* Utils::Environment: the variables the code reads or writes; PATH stands
\* for the executables a search along it finds
envA == [PATH |-> {"make", "jom.exe", "gmake"}, MAKEFLAGS |-> "", LC_MESSAGES |-> "de_DE"]
envB == [PATH |-> {"nmake.exe"}, MAKEFLAGS |-> "k", LC_MESSAGES |-> ""]
Environments == {envA, envB}
BuildDirectories == {"/build", "/shadow"}

\* No MakeStepConfigWidget has been created.
NoWidget ==
    /\ m_summaryText = ""
    /\ makeLabel = ""

\* The fields of a MakeStep as a record
StepFields(targets, arguments, command, clean) ==
    [buildTargets |-> targets, makeArguments |-> arguments, makeCommand |-> command,
     clean |-> clean]

NotSaved == [valid |-> FALSE, fields |-> StepFields(<<>>, "", "", FALSE)]

\* No MakeStep takes part: the Bazaar client is on its own.
NoMakeStep ==
    /\ m_buildTargets = <<>>
    /\ m_makeArguments = ""
    /\ m_makeCommand = ""
    /\ m_clean = FALSE
    /\ settings = <<>>
    /\ savedFrom = NotSaved
    /\ stepBc = None
    /\ activeBc = None
    /\ kitToolChain = None
    /\ environment = [bc \in BuildConfigurations |-> envA]
    /\ buildDirectory = [bc \in BuildConfigurations |-> "/build"]
    /\ NoWidget

----------------------------------------------------------------------------
(* Bounds of the model *)

MaxOptions == 2      \* entries of an ExtraCommandOptions map
MaxFixes == 2        \* entries of the FixesCommitOptionId string list
MaxLineLen == 6      \* characters of a status line
MaxConfLines == 3    \* lines of a branch.conf file
MaxTargets == 2      \* entries of the target list of a stored settings map

----------------------------------------------------------------------------
(* Generic helpers *)

RECURSIVE CountOf(_, _)
CountOf(x, s) ==
    IF s = <<>> THEN 0
    ELSE (IF Head(s) = x THEN 1 ELSE 0) + CountOf(x, Tail(s))

SeqsUpTo(S, n) == UNION {[1..k -> S] : k \in 0..n}

----------------------------------------------------------------------------
(* QVariant: a tagged value.  Only the conversions the sources call. *)

BoolVariant(b) == [type |-> "Bool", v |-> b]
StringVariant(s) == [type |-> "String", v |-> s]
StringListVariant(l) == [type |-> "StringList", v |-> l]
InvalidVariant == [type |-> "Invalid", v |-> FALSE]

\* QVariant::toBool
toBool(q) ==
    CASE q.type = "Bool" -> q.v
      [] q.type = "String" -> q.v \notin {"", "0", "false"}
      [] OTHER -> FALSE

\* QVariant::toString
toString(q) ==
    CASE q.type = "String" -> q.v
      [] q.type = "Bool" -> (IF q.v THEN "true" ELSE "false")
      [] q.type = "StringList" -> (IF Len(q.v) = 1 THEN q.v[1] ELSE "")
      [] OTHER -> ""

\* QVariant::toStringList
toStringList(q) ==
    CASE q.type = "StringList" -> q.v
      [] q.type = "String" -> <<q.v>>
      [] OTHER -> <<>>

----------------------------------------------------------------------------
(* BazaarClient: option ids and their values *)

CloneOptionIds ==
    {"UseExistingDirCloneOptionId", "StackedCloneOptionId", "StandAloneCloneOptionId",
     "BindCloneOptionId", "SwitchCloneOptionId", "HardLinkCloneOptionId",
     "NoTreeCloneOptionId", "RevisionCloneOptionId"}

CommonPullOrPushOptionIds ==
    {"RememberPullOrPushOptionId", "OverwritePullOrPushOptionId",
     "RevisionPullOrPushOptionId"}

PullOptionIds == CommonPullOrPushOptionIds \cup {"LocalPullOptionId"}

PushOptionIds ==
    CommonPullOrPushOptionIds \cup {"UseExistingDirPushOptionId", "CreatePrefixPushOptionId"}

CommitOptionIds == {"AuthorCommitOptionId", "FixesCommitOptionId", "LocalCommitOptionId"}

Revisions == {"", "42"}
Authors == {"", "Jane <j@x.com>"}
FixRefs == {"", "123", "456"}

\* The correctly tagged values of an option id.
OptionValues(id) ==
    CASE id \in {"RevisionCloneOptionId", "RevisionPullOrPushOptionId"} ->
            {StringVariant(r) : r \in Revisions}
      [] id = "AuthorCommitOptionId" -> {StringVariant(a) : a \in Authors}
      [] id = "FixesCommitOptionId" ->
            {StringListVariant(l) : l \in SeqsUpTo(FixRefs, MaxFixes)}
      [] OTHER -> {BoolVariant(b) : b \in BOOLEAN}

\* enum ExtraOptionId in declaration order (bazaarclient.h): the value of an
\* id is its position.  The switches name the ids, the header numbers them.
ExtraOptionId ==
    <<"UseExistingDirCloneOptionId", "StackedCloneOptionId", "StandAloneCloneOptionId",
      "BindCloneOptionId", "SwitchCloneOptionId", "HardLinkCloneOptionId",
      "NoTreeCloneOptionId", "RevisionCloneOptionId",
      "AuthorCommitOptionId", "FixesCommitOptionId", "LocalCommitOptionId",
      "RememberPullOrPushOptionId", "OverwritePullOrPushOptionId",
      "RevisionPullOrPushOptionId",
      "LocalPullOptionId",
      "UseExistingDirPushOptionId", "CreatePrefixPushOptionId">>

\* An ExtraCommandOptions map (QMap<int, QVariant>) as the sequence of its
\* entries in the order of extraOptions.keys(), which is ascending in the key:
\* the maps of at most n entries whose keys are ExtraOptionId[k] or later.
RECURSIVE ExtraOptionsFrom(_, _)
ExtraOptionsFrom(k, n) ==
    IF n = 0 \/ k > Len(ExtraOptionId) THEN {<<>>}
    ELSE ExtraOptionsFrom(k + 1, n)
            \cup {<<[id |-> ExtraOptionId[k], value |-> v]>> \o o :
                    v \in OptionValues(ExtraOptionId[k]), o \in ExtraOptionsFrom(k + 1, n - 1)}

ExtraCommandOptions == ExtraOptionsFrom(1, MaxOptions)

IdsOf(o) == {o[i].id : i \in DOMAIN o}

\* extraOptions[iOption]
ValueOf(o, id) == o[CHOOSE i \in DOMAIN o : o[i].id = id].value

----------------------------------------------------------------------------
(* BazaarClient: argument builders *)

\* ::addBoolArgument (arguments is never null at the call sites)
addBoolArgument(optionValue, optionName, arguments) ==
    IF toBool(optionValue) THEN Append(arguments, optionName) ELSE arguments

\* ::addRevisionArgument
addRevisionArgument(optionValue, arguments) ==
    LET revision == toString(optionValue)
    IN  IF revision # "" THEN arguments \o <<"-r", revision>> ELSE arguments

\* One pass of a switch: the arguments after it, and whether the
\* Q_ASSERT(false) of the default branch was reached.
Taken(arguments) == [args |-> arguments, assert |-> FALSE]
InvalidOption(arguments) == [args |-> arguments, assert |-> TRUE]

\* The switch of cloneArguments
CloneSwitch(o, args) ==
    CASE o.id = "UseExistingDirCloneOptionId" ->
            Taken(addBoolArgument(o.value, "--use-existing-dir", args))
      [] o.id = "StackedCloneOptionId" -> Taken(addBoolArgument(o.value, "--stacked", args))
      [] o.id = "StandAloneCloneOptionId" ->
            Taken(addBoolArgument(o.value, "--standalone", args))
      [] o.id = "BindCloneOptionId" -> Taken(addBoolArgument(o.value, "--bind", args))
      [] o.id = "SwitchCloneOptionId" -> Taken(addBoolArgument(o.value, "--switch", args))
      [] o.id = "HardLinkCloneOptionId" -> Taken(addBoolArgument(o.value, "--hardlink", args))
      [] o.id = "NoTreeCloneOptionId" -> Taken(addBoolArgument(o.value, "--no-tree", args))
      [] o.id = "RevisionCloneOptionId" -> Taken(addRevisionArgument(o.value, args))
      [] OTHER -> InvalidOption(args)

\* Mutant: the pull loop emits --remember again, after the shared helper did.
PullSwitchRepeatsCommon(o, args) ==
    CASE o.id = "RememberPullOrPushOptionId" ->
            Taken(addBoolArgument(o.value, "--remember", args))
      [] o.id = "OverwritePullOrPushOptionId" -> Taken(args)
      [] o.id = "RevisionPullOrPushOptionId" -> Taken(args)
      [] o.id = "LocalPullOptionId" -> Taken(addBoolArgument(o.value, "--local", args))
      [] OTHER -> InvalidOption(args)

\* The switch of pullArguments
PullSwitch(o, args) ==
    CASE o.id = "RememberPullOrPushOptionId" -> Taken(args)
      [] o.id = "OverwritePullOrPushOptionId" -> Taken(args)
      [] o.id = "RevisionPullOrPushOptionId" -> Taken(args)
      [] o.id = "LocalPullOptionId" -> Taken(addBoolArgument(o.value, "--local", args))
      [] OTHER -> InvalidOption(args)

\* Mutant: the push loop ignores unknown ids, as the shared helper does.
PushSwitchIgnoresUnknown(o, args) ==
    CASE o.id = "UseExistingDirPushOptionId" ->
            Taken(addBoolArgument(o.value, "--use-existing-dir", args))
      [] o.id = "CreatePrefixPushOptionId" ->
            Taken(addBoolArgument(o.value, "--create-prefix", args))
      [] OTHER -> Taken(args)

\* The switch of pushArguments
PushSwitch(o, args) ==
    CASE o.id = "RememberPullOrPushOptionId" -> Taken(args)
      [] o.id = "OverwritePullOrPushOptionId" -> Taken(args)
      [] o.id = "RevisionPullOrPushOptionId" -> Taken(args)
      [] o.id = "UseExistingDirPushOptionId" ->
            Taken(addBoolArgument(o.value, "--use-existing-dir", args))
      [] o.id = "CreatePrefixPushOptionId" ->
            Taken(addBoolArgument(o.value, "--create-prefix", args))
      [] OTHER -> InvalidOption(args)

\* Mutant: empty entries of the fixes list are not skipped.
RECURSIVE FixesArgumentsKeepsEmpty(_, _)
FixesArgumentsKeepsEmpty(fixes, args) ==
    IF fixes = <<>> THEN args
    ELSE FixesArgumentsKeepsEmpty(Tail(fixes), args \o <<"--fixes", Head(fixes)>>)

\* foreach (const QString &iFix, iOptValue.toStringList())
RECURSIVE FixesArguments(_, _)
FixesArguments(fixes, args) ==
    IF fixes = <<>> THEN args
    ELSE FixesArguments(Tail(fixes),
                        IF Head(fixes) # "" THEN args \o <<"--fixes", Head(fixes)>> ELSE args)

\* QString("--author=%1").arg(committerInfo)
AuthorArgument(committerInfo) == "--author=" \o committerInfo

\* The switch of commitArguments
CommitSwitch(o, args) ==
    CASE o.id = "AuthorCommitOptionId" ->
            (LET committerInfo == toString(o.value)
             IN  Taken(IF committerInfo # "" THEN Append(args, AuthorArgument(committerInfo))
                       ELSE args))
      [] o.id = "FixesCommitOptionId" -> Taken(FixesArguments(toStringList(o.value), args))
      [] o.id = "LocalCommitOptionId" -> Taken(addBoolArgument(o.value, "--local", args))
      [] OTHER -> InvalidOption(args)

\* The switch of commonPullOrPushArguments: unknown options do nothing
CommonSwitch(o, args) ==
    CASE o.id = "RememberPullOrPushOptionId" ->
            Taken(addBoolArgument(o.value, "--remember", args))
      [] o.id = "OverwritePullOrPushOptionId" ->
            Taken(addBoolArgument(o.value, "--overwrite", args))
      [] o.id = "RevisionPullOrPushOptionId" -> Taken(addRevisionArgument(o.value, args))
      [] OTHER -> Taken(args)

SwitchOf(which, o, args) ==
    CASE which = "clone" -> CloneSwitch(o, args)
      [] which = "pull" -> PullSwitch(o, args)
      [] which = "push" -> PushSwitch(o, args)
      [] which = "commit" -> CommitSwitch(o, args)
      [] which = "common" -> CommonSwitch(o, args)

\* foreach (int iOption, extraOptions.keys()) { switch ... } from entry i on.
\* st is [args, assertReached, aborted].  Where Q_ASSERT is compiled in, the
\* first invalid option aborts the program and no list is returned.
RECURSIVE ForeachOption(_, _, _, _, _)
ForeachOption(which, noDebug, opts, i, st) ==
    IF i > Len(opts) THEN st
    ELSE LET r == SwitchOf(which, opts[i], st.args)
         IN  IF r.assert /\ ~noDebug
             THEN [args |-> <<>>, assertReached |-> TRUE, aborted |-> TRUE]
             ELSE ForeachOption(which, noDebug, opts, i + 1,
                                [args |-> r.args,
                                 assertReached |-> st.assertReached \/ r.assert,
                                 aborted |-> FALSE])

Entered(arguments) == [args |-> arguments, assertReached |-> FALSE, aborted |-> FALSE]

\* What follows a loop: the positional arguments, unless the program aborted.
Returning(st, positional) ==
    IF st.aborted THEN st ELSE [st EXCEPT !.args = st.args \o positional]

\* BazaarClient::commonPullOrPushArguments
commonPullOrPushArguments(noDebug, extraOptions) ==
    ForeachOption("common", noDebug, extraOptions, 1, Entered(<<>>)).args

\* BazaarClient::cloneArguments
cloneArguments(noDebug, srcLocation, dstLocation, extraOptions) ==
    Returning(ForeachOption("clone", noDebug, extraOptions, 1, Entered(<<>>)),
              <<srcLocation>> \o (IF dstLocation # "" THEN <<dstLocation>> ELSE <<>>))

\* BazaarClient::pullArguments
pullArguments(noDebug, srcLocation, extraOptions) ==
    Returning(ForeachOption("pull", noDebug, extraOptions, 1,
                            Entered(commonPullOrPushArguments(noDebug, extraOptions))),
              IF srcLocation # "" THEN <<srcLocation>> ELSE <<>>)

\* BazaarClient::pushArguments
pushArguments(noDebug, dstLocation, extraOptions) ==
    Returning(ForeachOption("push", noDebug, extraOptions, 1,
                            Entered(commonPullOrPushArguments(noDebug, extraOptions))),
              IF dstLocation # "" THEN <<dstLocation>> ELSE <<>>)

\* BazaarClient::commitArguments
commitArguments(noDebug, files, commitMessageFile, extraOptions) ==
    Returning(ForeachOption("commit", noDebug, extraOptions, 1, Entered(<<>>)),
              <<"-F", commitMessageFile>> \o files)

----------------------------------------------------------------------------
(* Calls of the argument builders *)

SrcLocations == {"", "A"}
DstLocations == {"", "B"}
MessageFiles == {"msg.txt"}
FileLists == {<<>>, <<"a.txt">>, <<"b.txt", "a.txt">>}

NoCall == [none |-> TRUE]

InitArguments ==
    /\ qtNoDebug \in BOOLEAN
    /\ pc = "idle"
    /\ op = "none"
    /\ input = NoCall
    /\ result = NoCall
    /\ NoMakeStep

CloneArguments ==
    /\ pc = "idle"
    /\ \E src \in SrcLocations, dst \in DstLocations, o \in ExtraCommandOptions :
        /\ input' = [src |-> src, dst |-> dst, opts |-> o]
        /\ result' = cloneArguments(qtNoDebug, src, dst, o)
    /\ op' = "clone"
    /\ pc' = "done"
    /\ UNCHANGED <<qtNoDebug, makeVars>>

PullArguments ==
    /\ pc = "idle"
    /\ \E src \in SrcLocations, o \in ExtraCommandOptions :
        /\ input' = [src |-> src, opts |-> o]
        /\ result' = pullArguments(qtNoDebug, src, o)
    /\ op' = "pull"
    /\ pc' = "done"
    /\ UNCHANGED <<qtNoDebug, makeVars>>

PushArguments ==
    /\ pc = "idle"
    /\ \E dst \in DstLocations, o \in ExtraCommandOptions :
        /\ input' = [dst |-> dst, opts |-> o]
        /\ result' = pushArguments(qtNoDebug, dst, o)
    /\ op' = "push"
    /\ pc' = "done"
    /\ UNCHANGED <<qtNoDebug, makeVars>>

CommitArguments ==
    /\ pc = "idle"
    /\ \E files \in FileLists, msg \in MessageFiles, o \in ExtraCommandOptions :
        /\ input' = [files |-> files, msg |-> msg, opts |-> o]
        /\ result' = commitArguments(qtNoDebug, files, msg, o)
    /\ op' = "commit"
    /\ pc' = "done"
    /\ UNCHANGED <<qtNoDebug, makeVars>>

\* The caller takes the result and is ready for the next call.
Return ==
    /\ pc = "done"
    /\ pc' = "idle"
    /\ op' = "none"
    /\ input' = NoCall
    /\ result' = NoCall
    /\ UNCHANGED <<qtNoDebug, makeVars>>

NextArguments ==
    \/ CloneArguments
    \/ PullArguments
    \/ PushArguments
    \/ CommitArguments
    \/ Return

SpecArguments == InitArguments /\ [][NextArguments]_vars

----------------------------------------------------------------------------
(* Claims about the argument builders *)

Builders == {"clone", "pull", "push", "commit"}

\* The documented option table: the ids an operation recognizes, the flag of
\* each boolean id, and the revision id.
RecognizedIds(which) ==
    CASE which = "clone" -> CloneOptionIds
      [] which = "pull" -> PullOptionIds
      [] which = "push" -> PushOptionIds
      [] which = "commit" -> CommitOptionIds

DocumentedFlags(which) ==
    CASE which = "clone" ->
            {<<"UseExistingDirCloneOptionId", "--use-existing-dir">>,
             <<"StackedCloneOptionId", "--stacked">>,
             <<"StandAloneCloneOptionId", "--standalone">>,
             <<"BindCloneOptionId", "--bind">>,
             <<"SwitchCloneOptionId", "--switch">>,
             <<"HardLinkCloneOptionId", "--hardlink">>,
             <<"NoTreeCloneOptionId", "--no-tree">>}
      [] which = "pull" ->
            {<<"RememberPullOrPushOptionId", "--remember">>,
             <<"OverwritePullOrPushOptionId", "--overwrite">>,
             <<"LocalPullOptionId", "--local">>}
      [] which = "push" ->
            {<<"RememberPullOrPushOptionId", "--remember">>,
             <<"OverwritePullOrPushOptionId", "--overwrite">>,
             <<"UseExistingDirPushOptionId", "--use-existing-dir">>,
             <<"CreatePrefixPushOptionId", "--create-prefix">>}
      [] which = "commit" -> {<<"LocalCommitOptionId", "--local">>}

DocumentedRevisionIds(which) ==
    CASE which = "clone" -> {"RevisionCloneOptionId"}
      [] which \in {"pull", "push"} -> {"RevisionPullOrPushOptionId"}
      [] OTHER -> {}

Supplied(o, id) == id \in IdsOf(o)

SuppliedTrue(o, id) == Supplied(o, id) /\ ValueOf(o, id).v = TRUE

\* The positional arguments the caller passed, in the caller's order.
PositionalOf(which, in) ==
    CASE which = "clone" -> <<in.src>> \o (IF in.dst # "" THEN <<in.dst>> ELSE <<>>)
      [] which = "pull" -> (IF in.src # "" THEN <<in.src>> ELSE <<>>)
      [] which = "push" -> (IF in.dst # "" THEN <<in.dst>> ELSE <<>>)
      [] which = "commit" -> <<in.msg>> \o in.files

PositionalTokens == SrcLocations \cup DstLocations \cup MessageFiles \cup {"a.txt", "b.txt"}

EndsWith(s, tail) ==
    /\ Len(s) >= Len(tail)
    /\ SubSeq(s, Len(s) - Len(tail) + 1, Len(s)) = tail

RecognizedCall ==
    /\ pc = "done"
    /\ op \in Builders
    /\ IdsOf(input.opts) \subseteq RecognizedIds(op)

\* C1: for clone, pull, push and commit, given only recognized option ids with
\* correctly typed values, every boolean option contributes its flag exactly
\* once when true and nothing when false, the revision option contributes the
\* pair -r <value> exactly once when non-empty and nothing otherwise (the
\* shared pull/push options are not emitted twice), and the positional
\* arguments come last, after every flag token, in the caller's order, an
\* empty destination (clone) or location (pull, push) being left out.
C1_FlagsOnceThenPositionals ==
    RecognizedCall =>
        LET a == result.args
            pos == PositionalOf(op, input)
            n == Len(a) - Len(pos)
        IN  /\ ~result.aborted
            /\ \A f \in DocumentedFlags(op) :
                  CountOf(f[2], a) = IF SuppliedTrue(input.opts, f[1]) THEN 1 ELSE 0
            /\ \A r \in DocumentedRevisionIds(op) :
                  IF Supplied(input.opts, r) /\ ValueOf(input.opts, r).v # ""
                  THEN /\ CountOf("-r", a) = 1
                       /\ CountOf(ValueOf(input.opts, r).v, a) = 1
                       /\ \E i \in 1..(Len(a) - 1) :
                            a[i] = "-r" /\ a[i + 1] = ValueOf(input.opts, r).v
                  ELSE \A x \in {"-r"} \cup (Revisions \ {""}) : CountOf(x, a) = 0
            /\ EndsWith(a, pos)
            /\ \A i \in 1..n : a[i] \notin PositionalTokens

\* C1 witness: a pull with remember and a revision returns each once, then
\* the location.
C1_Witness ==
    /\ pc = "done"
    /\ op = "pull"
    /\ input.src = "A"
    /\ input.opts = <<[id |-> "RememberPullOrPushOptionId", value |-> BoolVariant(TRUE)],
                      [id |-> "RevisionPullOrPushOptionId", value |-> StringVariant("42")]>>
    /\ result.args = <<"--remember", "-r", "42", "A">>

\* tokens that follow a --fixes token, in order
RECURSIVE FixesIn(_)
FixesIn(a) ==
    IF Len(a) < 2 THEN <<>>
    ELSE IF Head(a) = "--fixes" THEN <<a[2]>> \o FixesIn(Tail(Tail(a)))
         ELSE FixesIn(Tail(a))

NonEmptyEntries(l) == SelectSeq(l, LAMBDA x : x # "")

\* C2: commitArguments emits --author=<value> only for a supplied non-empty
\* author, one --fixes <ref> pair per non-empty entry of the fixes list in
\* list order, --local only if the local option is true, nothing else, and
\* every call that returns ends with -F, the message file and the files in
\* the caller's order.
C2_CommitArguments ==
    /\ (pc = "done" /\ op = "commit" /\ ~result.aborted) =>
            EndsWith(result.args, <<"-F", input.msg>> \o input.files)
    /\ (RecognizedCall /\ op = "commit") =>
        LET a == result.args
            o == input.opts
            author == IF Supplied(o, "AuthorCommitOptionId")
                      THEN ValueOf(o, "AuthorCommitOptionId").v ELSE ""
            fixes == IF Supplied(o, "FixesCommitOptionId")
                     THEN NonEmptyEntries(ValueOf(o, "FixesCommitOptionId").v) ELSE <<>>
            local == SuppliedTrue(o, "LocalCommitOptionId")
        IN  /\ ~result.aborted
            /\ CountOf("--author=Jane <j@x.com>", a) =
                    (IF author = "Jane <j@x.com>" THEN 1 ELSE 0)
            /\ CountOf("--author=", a) = 0
            /\ FixesIn(a) = fixes
            /\ CountOf("--fixes", a) = Len(fixes)
            /\ CountOf("--local", a) = (IF local THEN 1 ELSE 0)
            /\ Len(a) = (IF author # "" THEN 1 ELSE 0) + 2 * Len(fixes)
                            + (IF local THEN 1 ELSE 0) + 2 + Len(input.files)

\* C2 witness: the documented commit example.
C2_Witness ==
    /\ pc = "done"
    /\ op = "commit"
    /\ input.files = <<"a.txt">>
    /\ input.opts = <<[id |-> "AuthorCommitOptionId",
                       value |-> StringVariant("Jane <j@x.com>")],
                      [id |-> "FixesCommitOptionId",
                       value |-> StringListVariant(<<"123", "456">>)]>>
    /\ result.args = <<"--author=Jane <j@x.com>", "--fixes", "123", "--fixes", "456",
                       "-F", "msg.txt", "a.txt">>

\* C3: in clone, pull, push and commit every option id the operation does not
\* recognize reaches the Q_ASSERT(false) of its default branch, and only
\* such an id does; where assertions are compiled in the call aborts there.
C3_UnrecognizedIdAsserts ==
    (pc = "done" /\ op \in Builders) =>
        /\ result.assertReached <=> ~(IdsOf(input.opts) \subseteq RecognizedIds(op))
        /\ result.aborted <=> (result.assertReached /\ ~qtNoDebug)

\* C3 witness: a pull-only id given to pushArguments beside a shared id that
\* the helper took, and the assertion of pushArguments is reached.
C3_Witness ==
    /\ pc = "done"
    /\ op = "push"
    /\ "LocalPullOptionId" \in IdsOf(input.opts)
    /\ "RememberPullOrPushOptionId" \in IdsOf(input.opts)
    /\ result.assertReached

----------------------------------------------------------------------------
(* BazaarClient::parseStatusLine.  A QString is a sequence of characters;  *)
(* line[i] of the code is line[i + 1] here.                                *)

\* QString::mid(position): the characters from index position to the end
mid(str, position) ==
    IF position >= Len(str) THEN <<>> ELSE SubSeq(str, position + 1, Len(str))

\* Mutant: the content flag does not override a recognized version flag.
parseStatusLineFirstFlagWins(line) ==
    IF line = <<>> THEN [state |-> "", path |-> <<>>]
    ELSE LET flagVersion == line[1]
             v == CASE flagVersion = "+" -> "Versioned"
                    [] flagVersion = "-" -> "Unversioned"
                    [] flagVersion = "R" -> "Renamed"
                    [] flagVersion = "?" -> "Unknown"
                    [] flagVersion = "X" -> "Nonexistent"
                    [] flagVersion = "C" -> "Conflict"
                    [] flagVersion = "P" -> "PendingMerge"
                    [] OTHER -> ""
             c == IF Len(line) >= 2 /\ v = ""
                  THEN CASE line[2] = "N" -> "Created"
                         [] line[2] = "D" -> "Deleted"
                         [] line[2] = "K" -> "KindChanged"
                         [] line[2] = "M" -> "Modified"
                         [] OTHER -> v
                  ELSE v
             e == IF Len(line) >= 3 /\ line[3] = "*" THEN "ExecuteBitChanged" ELSE c
         IN  [state |-> e, path |-> mid(line, 4)]

\* Mutant: the path is taken from index 3, right after the three flags.
parseStatusLinePathAtThree(line) ==
    IF line = <<>> THEN [state |-> "", path |-> <<>>]
    ELSE [state |-> IF line[1] = "?" THEN "Unknown" ELSE "", path |-> mid(line, 3)]

\* Mutant: padding in front of the path is dropped.
parseStatusLineTrimsPath(line) ==
    IF line = <<>> THEN [state |-> "", path |-> <<>>]
    ELSE LET rest == mid(line, 4)
         IN  [state |-> CASE line[1] = "?" -> "Unknown"
                          [] line[1] = "+" -> "Versioned"
                          [] line[1] = "-" -> "Unversioned"
                          [] line[1] = "R" -> "Renamed"
                          [] line[1] = "X" -> "Nonexistent"
                          [] line[1] = "C" -> "Conflict"
                          [] line[1] = "P" -> "PendingMerge"
                          [] OTHER -> "",
              path |-> IF rest # <<>> /\ Head(rest) = " " THEN Tail(rest) ELSE rest]

\* BazaarClient::parseStatusLine: status.first is state, status.second is path
parseStatusLine(line) ==
    IF line = <<>> THEN [state |-> "", path |-> <<>>]
    ELSE LET flagVersion == line[1]
             lineLength == Len(line)
             v == CASE flagVersion = "+" -> "Versioned"
                    [] flagVersion = "-" -> "Unversioned"
                    [] flagVersion = "R" -> "Renamed"
                    [] flagVersion = "?" -> "Unknown"
                    [] flagVersion = "X" -> "Nonexistent"
                    [] flagVersion = "C" -> "Conflict"
                    [] flagVersion = "P" -> "PendingMerge"
                    [] OTHER -> ""
             c == IF lineLength >= 2
                  THEN CASE line[2] = "N" -> "Created"
                         [] line[2] = "D" -> "Deleted"
                         [] line[2] = "K" -> "KindChanged"
                         [] line[2] = "M" -> "Modified"
                         [] OTHER -> v
                  ELSE v
             e == IF lineLength >= 3 /\ line[3] = "*" THEN "ExecuteBitChanged" ELSE c
         IN  [state |-> e, path |-> mid(line, 4)]

\* Status lines: the three flag columns range over every flag character, a
\* space and a letter; the rest of the line over a space, a letter and a flag
\* character.  The documented examples are lines of their own.
FlagChars == {"+", "-", "R", "?", "X", "C", "P", "N", "D", "K", "M", "*", " ", "f"}
RestChars == {" ", "f", "N"}

CreatedExample == <<"+", "N", " ", " ", "f", "i", "l", "e", ".", "t", "x", "t">>
UnknownExample ==
    <<"?", " ", " ", " ", " ", "u", "n", "k", "n", "o", "w", "n", ".", "t", "x", "t">>
UnknownThreeSpaces ==
    <<"?", " ", " ", " ", "u", "n", "k", "n", "o", "w", "n", ".", "t", "x", "t">>

DocumentedLines == {CreatedExample, UnknownExample, UnknownThreeSpaces}

Min(a, b) == IF a <= b THEN a ELSE b

InitStatus ==
    /\ qtNoDebug = FALSE      \* parseStatusLine asserts nothing
    /\ pc = "idle"
    /\ op = "none"
    /\ input = NoCall
    /\ result = NoCall
    /\ NoMakeStep

ParseStatusLine ==
    /\ pc = "idle"
    /\ \/ \E n \in 0..MaxLineLen :
            \E flags \in [1..Min(n, 3) -> FlagChars], rest \in [1..(n - Min(n, 3)) -> RestChars] :
                /\ input' = [line |-> flags \o rest]
                /\ result' = parseStatusLine(flags \o rest)
       \/ \E line \in DocumentedLines :
            /\ input' = [line |-> line]
            /\ result' = parseStatusLine(line)
    /\ op' = "parseStatusLine"
    /\ pc' = "done"
    /\ UNCHANGED <<qtNoDebug, makeVars>>

NextStatus ==
    \/ ParseStatusLine
    \/ Return

SpecStatus == InitStatus /\ [][NextStatus]_vars

----------------------------------------------------------------------------
(* Claims about parseStatusLine *)

Parsed == pc = "done" /\ op = "parseStatusLine"

VersionStates ==
    {<<"+", "Versioned">>, <<"-", "Unversioned">>, <<"R", "Renamed">>, <<"?", "Unknown">>,
     <<"X", "Nonexistent">>, <<"C", "Conflict">>, <<"P", "PendingMerge">>}

ContentStates ==
    {<<"N", "Created">>, <<"D", "Deleted">>, <<"K", "KindChanged">>, <<"M", "Modified">>}

\* the states a table gives a character: one state or none
StatesOf(table, ch) == {t[2] : t \in {u \in table : u[1] = ch}}

\* C4: the state is decoded as a priority cascade: ExecuteBitChanged if the
\* line has at least 3 characters and character 2 is '*'; otherwise the content
\* state of character 1 if the line has at least 2 characters and character 1
\* is N, D, K or M; otherwise the version state of character 0; and empty if
\* no position carries a recognized flag.  One state per line.
C4_StatePriorityCascade ==
    Parsed =>
        LET line == input.line
            exec == Len(line) >= 3 /\ line[3] = "*"
            content == IF Len(line) >= 2 THEN StatesOf(ContentStates, line[2]) ELSE {}
            version == IF Len(line) >= 1 THEN StatesOf(VersionStates, line[1]) ELSE {}
        IN  /\ exec => result.state = "ExecuteBitChanged"
            /\ (~exec /\ content # {}) => result.state \in content
            /\ (~exec /\ content = {} /\ version # {}) => result.state \in version
            /\ (~exec /\ content = {} /\ version = {}) => result.state = ""

\* C4 witness: all three positions carry a flag and the execute bit wins.
C4_Witness ==
    /\ Parsed
    /\ Len(input.line) = 5
    /\ input.line[1] = "+" /\ input.line[2] = "N" /\ input.line[3] = "*"
    /\ result.state = "ExecuteBitChanged"

\* C5: the path is exactly the characters of the line from index 4 to its
\* end, whatever the flag characters are; it is empty when the line has 4
\* characters or fewer, and the empty line gives an empty state and path.
C5_PathFromIndexFour ==
    Parsed =>
        LET line == input.line
            path == result.path
        IN  /\ Len(path) = (IF Len(line) > 4 THEN Len(line) - 4 ELSE 0)
            /\ \A i \in 1..Len(path) : path[i] = line[i + 4]
            /\ line = <<>> => (result.state = "" /\ path = <<>>)

\* C5 witness: a line without any recognized flag and a two-character path.
C5_Witness ==
    /\ Parsed
    /\ input.line = <<"f", "f", "f", "f", "N", "f">>
    /\ result.state = ""
    /\ result.path = <<"N", "f">>

RECURSIVE LeadingSpaces(_)
LeadingSpaces(str) ==
    IF str # <<>> /\ Head(str) = " " THEN 1 + LeadingSpaces(Tail(str)) ELSE 0

\* A line that carries only a version flag, padding spaces and a path.
VersionFlagOnly(line) ==
    /\ Len(line) >= 2
    /\ StatesOf(VersionStates, line[1]) # {}
    /\ LeadingSpaces(Tail(line)) >= 3
    /\ LeadingSpaces(Tail(line)) < Len(line) - 1

PathWritten(line) == SubSeq(line, 2 + LeadingSpaces(Tail(line)), Len(line))

\* C6 as stated: for a version flag followed by padding spaces and a path (the
\* documented case: '?', four spaces, unknown.txt) the state is the one of the
\* flag and the path is the path as written, without a leading space.
C6_Original ==
    (Parsed /\ VersionFlagOnly(input.line)) =>
        /\ result.state \in StatesOf(VersionStates, input.line[1])
        /\ result.path = PathWritten(input.line)

Spaces(n) == [i \in 1..n |-> " "]

\* C6 amended: the state is the one of the flag, and the path is the line from
\* index 4 on: the path as written when the flag is followed by exactly three
\* padding spaces, and otherwise the padding beyond the third space followed
\* by the path as written ('?', four spaces, unknown.txt gives " unknown.txt").
C6_PathKeepsExtraPadding ==
    (Parsed /\ VersionFlagOnly(input.line)) =>
        LET k == LeadingSpaces(Tail(input.line))
        IN  /\ result.state \in StatesOf(VersionStates, input.line[1])
            /\ result.path = Spaces(k - 3) \o PathWritten(input.line)
            /\ k = 3 => result.path = PathWritten(input.line)

\* C6 witness: the documented line, parsed.
C6_Witness ==
    /\ Parsed
    /\ input.line = UnknownExample
    /\ result.state = "Unknown"
    /\ result.path = <<" ", "u", "n", "k", "n", "o", "w", "n", ".", "t", "x", "t">>

----------------------------------------------------------------------------
(* BazaarClient::synchronousBranchQuery.  The lines of branch.conf and the  *)
(* strings cut out of them are sequences of characters.                     *)

IsSpace(c) == c \in {" ", "\t"}

\* the white space characters at the front of str
RECURSIVE SpaceRun(_)
SpaceRun(str) == IF str # <<>> /\ IsSpace(Head(str)) THEN 1 + SpaceRun(Tail(str)) ELSE 0

From(str, i) == SubSeq(str, i, Len(str))

NoMatch == [matched |-> FALSE, cap |-> <<>>]

\* The pattern  key\s*=\s*(.+)$  tried at position i of line: cap is cap(1).
\* The white space after '=' goes to \s* as far as (.+) keeps one character.
MatchAt(key, line, i) ==
    LET j == i + Len(key)
        eq == j + SpaceRun(From(line, j))
        v == eq + 1 + SpaceRun(From(line, eq + 1))
    IN  IF /\ j - 1 <= Len(line)
           /\ SubSeq(line, i, j - 1) = key
           /\ eq <= Len(line)
           /\ line[eq] = "="
           /\ eq < Len(line)
        THEN [matched |-> TRUE,
              cap |-> IF v <= Len(line) THEN From(line, v) ELSE From(line, Len(line))]
        ELSE NoMatch

\* QRegExp::indexIn(line) != -1 and cap(1): the leftmost position that matches
indexIn(key, line) ==
    LET at == {i \in 1..Len(line) : MatchAt(key, line, i).matched}
    IN  IF at = {} THEN NoMatch
        ELSE MatchAt(key, line, CHOOSE i \in at : \A k \in at : i <= k)

branchLocationRx == <<"b", "o", "u", "n", "d", "_", "l", "o", "c", "a", "t", "i", "o", "n">>
isBranchBoundRx == <<"b", "o", "u", "n", "d">>

\* QString::simplified: white space stripped at both ends, inner runs become one space
RECURSIVE Collapse(_)
Collapse(str) ==
    IF str = <<>> THEN <<>>
    ELSE IF IsSpace(Head(str))
         THEN LET rest == From(str, 1 + SpaceRun(str))
              IN  IF rest = <<>> THEN <<>> ELSE <<" ">> \o Collapse(rest)
         ELSE <<Head(str)>> \o Collapse(Tail(str))

simplified(str) == Collapse(From(str, 1 + SpaceRun(str)))

\* QString::toLower, on the letters of the model's lines
LowerOf(c) ==
    CASE c = "T" -> "t" [] c = "R" -> "r" [] c = "U" -> "u" [] c = "E" -> "e"
      [] OTHER -> c

toLower(str) == [i \in DOMAIN str |-> LowerOf(str[i])]

\* The while loop from line i on: the two strings and the lines read so far.
RECURSIVE ScanLines(_, _, _, _)
ScanLines(lines, i, branchLocation, isBranchBound) ==
    IF i <= Len(lines) /\ (branchLocation = <<>> \/ isBranchBound = <<>>)
    THEN LET line == lines[i]
         IN  IF indexIn(branchLocationRx, line).matched
             THEN ScanLines(lines, i + 1, indexIn(branchLocationRx, line).cap, isBranchBound)
             ELSE IF indexIn(isBranchBoundRx, line).matched
                  THEN ScanLines(lines, i + 1, branchLocation,
                                 indexIn(isBranchBoundRx, line).cap)
                  ELSE ScanLines(lines, i + 1, branchLocation, isBranchBound)
    ELSE [branchLocation |-> branchLocation, isBranchBound |-> isBranchBound,
          linesRead |-> i - 1]

True == <<"t", "r", "u", "e">>

BranchInfo(location, bound, read) ==
    [location |-> location, isBound |-> bound, linesRead |-> read]

\* Mutant: the bound value is compared without case folding.
synchronousBranchQueryCaseSensitive(opened, lines, repositoryRoot) ==
    IF ~opened THEN BranchInfo(<<>>, FALSE, 0)
    ELSE LET scan == ScanLines(lines, 1, <<>>, <<>>)
         IN  IF simplified(scan.isBranchBound) = True
             THEN BranchInfo(scan.branchLocation, TRUE, scan.linesRead)
             ELSE BranchInfo(repositoryRoot, FALSE, scan.linesRead)

\* BazaarClient::synchronousBranchQuery; opened is what branchConfFile.open returned
synchronousBranchQuery(opened, lines, repositoryRoot) ==
    IF ~opened THEN BranchInfo(<<>>, FALSE, 0)
    ELSE LET scan == ScanLines(lines, 1, <<>>, <<>>)
         IN  IF toLower(simplified(scan.isBranchBound)) = True
             THEN BranchInfo(scan.branchLocation, TRUE, scan.linesRead)
             ELSE BranchInfo(repositoryRoot, FALSE, scan.linesRead)

\* Lines of a branch.conf
Eq == <<" ", "=", " ">>
RemotePath == <<"/", "r">>
OtherPath == <<"/", "o">>

ConfLines ==
    {branchLocationRx \o Eq \o RemotePath,
     branchLocationRx \o Eq \o OtherPath,
     branchLocationRx \o <<"=">> \o RemotePath,
     branchLocationRx \o <<" ", "=">>,
     isBranchBoundRx \o Eq \o <<"T", "r", "u", "e">>,
     isBranchBoundRx \o <<"=">> \o True,
     isBranchBoundRx \o <<"\t", "=", " ", " ">> \o True \o <<" ">>,
     isBranchBoundRx \o Eq \o <<"F", "a", "l", "s", "e">>,
     isBranchBoundRx \o <<" ", "=", " ">>,
     isBranchBoundRx \o <<" ", "=">>,
     <<"x">> \o isBranchBoundRx \o Eq \o True,
     <<"n", "i", "c", "k">> \o Eq \o <<"t", "r", "u", "n", "k">>,
     <<>>}

RepositoryRoots == {<<"/", "w">>}

InitBranch ==
    /\ qtNoDebug = FALSE      \* synchronousBranchQuery asserts nothing
    /\ pc = "idle"
    /\ op = "none"
    /\ input = NoCall
    /\ result = NoCall
    /\ NoMakeStep

SynchronousBranchQuery ==
    /\ pc = "idle"
    /\ \E root \in RepositoryRoots :
        \/ /\ input' = [opened |-> FALSE, lines |-> <<>>, root |-> root]
           /\ result' = synchronousBranchQuery(FALSE, <<>>, root)
        \/ \E n \in 0..MaxConfLines : \E lines \in [1..n -> ConfLines] :
           /\ input' = [opened |-> TRUE, lines |-> lines, root |-> root]
           /\ result' = synchronousBranchQuery(TRUE, lines, root)
    /\ op' = "synchronousBranchQuery"
    /\ pc' = "done"
    /\ UNCHANGED <<qtNoDebug, makeVars>>

NextBranch ==
    \/ SynchronousBranchQuery
    \/ Return

SpecBranch == InitBranch /\ [][NextBranch]_vars

----------------------------------------------------------------------------
(* Claims about synchronousBranchQuery *)

Queried == pc = "done" /\ op = "synchronousBranchQuery"

\* The lines of a file that give a key a value: a bound_location line is one
\* the location pattern matches, a bound line one that only the bound pattern
\* matches.
LocationLines(lines) == {i \in DOMAIN lines : indexIn(branchLocationRx, lines[i]).matched}

BoundLines(lines) ==
    {i \in DOMAIN lines : /\ ~indexIn(branchLocationRx, lines[i]).matched
                          /\ indexIn(isBranchBoundRx, lines[i]).matched}

LocationAt(lines, i) == indexIn(branchLocationRx, lines[i]).cap
BoundAt(lines, i) == indexIn(isBranchBoundRx, lines[i]).cap

\* a bound value that is "true" once trimmed and case folded
MeansTrue(v) ==
    LET core == SelectSeq(v, LAMBDA c : ~IsSpace(c))
    IN  /\ Len(core) = 4
        /\ core[1] \in {"t", "T"} /\ core[2] \in {"r", "R"}
        /\ core[3] \in {"u", "U"} /\ core[4] \in {"e", "E"}
        /\ \E k \in 1..(Len(v) - 3) : \A d \in 0..3 : ~IsSpace(v[k + d])

\* C7: the query returns (empty location, unbound) when branch.conf cannot be
\* opened; (value of bound_location, bound) when the file's bound value is
\* "true" after trimming and case folding; and (repositoryRoot, unbound) in
\* every other case, also without any bound key and when bound_location is
\* present but bound is not true.  The file's bound value is the value of its
\* bound lines where they agree on being true or not; which of several lines
\* counts is the subject of C8.
C7_BranchQueryResult ==
    Queried =>
        LET lines == input.lines
            bound == BoundLines(lines)
            locs == LocationLines(lines)
            location == result.location
        IN  /\ ~input.opened => (location = <<>> /\ ~result.isBound)
            /\ (input.opened /\ bound # {} /\ \A i \in bound : MeansTrue(BoundAt(lines, i)))
                    => /\ result.isBound
                       /\ locs = {} => location = <<>>
                       /\ locs # {} => \E i \in locs : location = LocationAt(lines, i)
                       /\ \A v \in {LocationAt(lines, i) : i \in locs} :
                            Cardinality({LocationAt(lines, i) : i \in locs}) = 1
                                => location = v
            /\ (input.opened /\ \A i \in bound : ~MeansTrue(BoundAt(lines, i)))
                    => (location = input.root /\ ~result.isBound)
            /\ input.opened =>
                    \/ (location = input.root /\ ~result.isBound)
                    \/ /\ result.isBound
                       /\ \E i \in bound : MeansTrue(BoundAt(lines, i))

\* C7 witness: the documented file, bound = True and bound_location = /r.
C7_Witness ==
    /\ Queried
    /\ input.opened
    /\ input.lines = <<isBranchBoundRx \o Eq \o <<"T", "r", "u", "e">>,
                       branchLocationRx \o Eq \o RemotePath>>
    /\ result.location = RemotePath
    /\ result.isBound

Least(S) == CHOOSE i \in S : \A k \in S : i <= k

\* C8 as stated: for each of the two keys the first matching line of the file
\* gives the value used in the result, later lines with the same key are
\* ignored whatever the order of the lines, and the scan stops once both keys
\* have been found or the file ends.
C8_FirstMatchWins ==
    (Queried /\ input.opened) =>
        LET lines == input.lines
            bound == BoundLines(lines)
            locs == LocationLines(lines)
            firstBound == IF bound = {} THEN <<>> ELSE BoundAt(lines, Least(bound))
            firstLocation == IF locs = {} THEN <<>> ELSE LocationAt(lines, Least(locs))
        IN  /\ result.isBound = MeansTrue(firstBound)
            /\ result.location = (IF MeansTrue(firstBound) THEN firstLocation ELSE input.root)
            /\ result.linesRead =
                    (IF bound # {} /\ locs # {}
                     THEN (IF Least(bound) > Least(locs) THEN Least(bound) ELSE Least(locs))
                     ELSE Len(lines))

----------------------------------------------------------------------------
(* MakeStep (makestep.cpp) *)

BUILD_TARGETS_SUFFIX == ".BuildTargets"
MAKE_ARGUMENTS_SUFFIX == ".MakeArguments"
\* Mutant: the command is stored under the key of the arguments.
MAKE_COMMAND_SUFFIX_OfArguments == ".MakeArguments"
MAKE_COMMAND_SUFFIX == ".MakeCommand"
CLEAN_SUFFIX == ".Clean"

\* id() of the step, and id().withSuffix(suffix).toString()
StepId == "GenericProjectManager.GenericMakeStep"
withSuffix(suffix) == StepId \o suffix

\* QVariantMap: a function from keys to QVariants
insert(map, key, value) ==
    [k \in DOMAIN map \cup {key} |-> IF k = key THEN value ELSE map[k]]

value(map, key) == IF key \in DOMAIN map THEN map[key] ELSE InvalidVariant

\* AbstractProcessStep::toMap(): what the base classes store
BaseMap ==
    insert(insert(<<>>, "ProjectExplorer.ProjectConfiguration.Id", StringVariant(StepId)),
           "ProjectExplorer.BuildStep.Enabled", BoolVariant(TRUE))

Fields == StepFields(m_buildTargets, m_makeArguments, m_makeCommand, m_clean)

\* MakeStep::toMap
toMap ==
    insert(insert(insert(insert(BaseMap,
        withSuffix(BUILD_TARGETS_SUFFIX), StringListVariant(m_buildTargets)),
        withSuffix(MAKE_ARGUMENTS_SUFFIX), StringVariant(m_makeArguments)),
        withSuffix(MAKE_COMMAND_SUFFIX), StringVariant(m_makeCommand)),
        withSuffix(CLEAN_SUFFIX), BoolVariant(m_clean))

\* MakeStep::fromMap: the fields it assigns
fromMap(map) ==
    StepFields(toStringList(value(map, withSuffix(BUILD_TARGETS_SUFFIX))),
               toString(value(map, withSuffix(MAKE_ARGUMENTS_SUFFIX))),
               toString(value(map, withSuffix(MAKE_COMMAND_SUFFIX))),
               toBool(value(map, withSuffix(CLEAN_SUFFIX))))

\* QStringList::contains
contains(list, x) == \E i \in DOMAIN list : list[i] = x

\* QStringList::removeOne: the first occurrence goes
removeOne(list, x) ==
    LET i == CHOOSE k \in DOMAIN list : list[k] = x /\ \A j \in 1..(k - 1) : list[j] # x
    IN  SubSeq(list, 1, i - 1) \o SubSeq(list, i + 1, Len(list))

\* MakeStep::buildsTarget
buildsTarget(target) == contains(m_buildTargets, target)

\* MakeStep::setBuildTarget: the new m_buildTargets
setBuildTarget(target, on) ==
    IF on /\ ~contains(m_buildTargets, target) THEN Append(m_buildTargets, target)
    ELSE IF ~on /\ contains(m_buildTargets, target) THEN removeOne(m_buildTargets, target)
         ELSE m_buildTargets

\* ToolChain::makeCommand(environment): the make tool of a tool chain, as the
\* environment locates it
makeCommandOf(tc, env) ==
    CASE tc = "gcc" -> IF "make" \in env.PATH THEN "/usr/bin/make" ELSE "make"
      [] tc = "msvc" -> IF "jom.exe" \in env.PATH THEN "C:/jom/jom.exe" ELSE "nmake.exe"
      [] tc = "mingw" -> "mingw32-make.exe"

\* What the step sees of its project, as one value
Project ==
    [stepBc |-> stepBc, activeBc |-> activeBc, kitToolChain |-> kitToolChain,
     environment |-> environment, buildDirectory |-> buildDirectory]

\* Mutant: the step's own build configuration only, no fallback to the
\* target's active one.
effectiveMakeCommandWithoutFallback(step, project) ==
    IF step.makeCommand # "" THEN step.makeCommand
    ELSE IF project.stepBc # None /\ project.kitToolChain # None
         THEN makeCommandOf(project.kitToolChain, project.environment[project.stepBc])
         ELSE ""

\* MakeStep::effectiveMakeCommand, of a step with these fields in this project
effectiveMakeCommand(step, project) ==
    IF step.makeCommand # "" THEN step.makeCommand
    ELSE LET bc == IF project.stepBc # None THEN project.stepBc ELSE project.activeBc
             tc == project.kitToolChain
         IN  IF bc # None /\ tc # None THEN makeCommandOf(tc, project.environment[bc]) ELSE ""

AvailableTargets == {"all", "clean"}
MakeArguments == {"", "-j4"}
MakeCommands == {"", "gmake"}

\* MakeStep::MakeStep: the fields after construction (m_clean starts false)
Constructed(buildTarget) ==
    /\ m_buildTargets = (IF buildTarget # "" THEN <<buildTarget>> ELSE <<>>)
    /\ m_makeArguments = ""
    /\ m_makeCommand = ""
    /\ m_clean = FALSE
    /\ settings = <<>>
    /\ savedFrom = NotSaved

NoBazaarCall ==
    /\ qtNoDebug = FALSE      \* MakeStep asserts nothing
    /\ pc = "idle"
    /\ op = "none"
    /\ input = NoCall
    /\ result = NoCall

\* a step of a project without build configurations and tool chain
InitPersistence ==
    /\ NoBazaarCall
    /\ \E buildTarget \in {""} \cup AvailableTargets : Constructed(buildTarget)
    /\ stepBc = None
    /\ activeBc = None
    /\ kitToolChain = None
    /\ environment = [bc \in BuildConfigurations |-> envA]
    /\ buildDirectory = [bc \in BuildConfigurations |-> "/build"]
    /\ NoWidget

\* a step in any project: with or without a build configuration of its own
InitMakeCommand ==
    /\ NoBazaarCall
    /\ Constructed("")
    /\ stepBc \in {None, "bc1"}
    /\ activeBc \in {None} \cup BuildConfigurations
    /\ kitToolChain \in {None} \cup ToolChains
    /\ environment \in [BuildConfigurations -> Environments]
    /\ buildDirectory = [bc \in BuildConfigurations |-> "/build"]
    /\ NoWidget

Called(name, in, out) ==
    /\ op' = name
    /\ input' = in
    /\ result' = out
    /\ UNCHANGED <<qtNoDebug, pc>>

SetBuildTarget ==
    \E target \in AvailableTargets, on \in BOOLEAN :
        /\ m_buildTargets' = setBuildTarget(target, on)
        /\ Called("setBuildTarget", [target |-> target, on |-> on],
                  [old |-> m_buildTargets])
        /\ UNCHANGED <<m_makeArguments, m_makeCommand, m_clean, storeVars, projectVars, widgetVars>>

SetUserArguments ==
    \E args \in MakeArguments :
        /\ m_makeArguments' = args
        /\ Called("setUserArguments", [args |-> args], NoCall)
        /\ UNCHANGED <<m_buildTargets, m_makeCommand, m_clean, storeVars, projectVars, widgetVars>>

SetMakeCommand ==
    \E command \in MakeCommands :
        /\ m_makeCommand' = command
        /\ Called("setMakeCommand", [command |-> command], NoCall)
        /\ UNCHANGED <<m_buildTargets, m_makeArguments, m_clean, storeVars, projectVars, widgetVars>>

SetClean ==
    \E clean \in BOOLEAN :
        /\ m_clean' = clean
        /\ Called("setClean", [clean |-> clean], NoCall)
        /\ UNCHANGED <<m_buildTargets, m_makeArguments, m_makeCommand, storeVars, projectVars, widgetVars>>

ToMap ==
    /\ settings' = toMap
    /\ savedFrom' = [valid |-> TRUE, fields |-> Fields]
    /\ Called("toMap", NoCall, NoCall)
    /\ UNCHANGED <<stepVars, projectVars, widgetVars>>

\* fromMap(settings); what BuildStep::fromMap returns is left out
FromMap ==
    /\ m_buildTargets' = fromMap(settings).buildTargets
    /\ m_makeArguments' = fromMap(settings).makeArguments
    /\ m_makeCommand' = fromMap(settings).makeCommand
    /\ m_clean' = fromMap(settings).clean
    /\ Called("fromMap", NoCall, NoCall)
    /\ UNCHANGED <<storeVars, projectVars, widgetVars>>

EffectiveMakeCommand ==
    /\ Called("effectiveMakeCommand", NoCall,
              [command |-> effectiveMakeCommand(Fields, Project)])
    /\ UNCHANGED makeVars

\* The host changes what the step sees: the kit's tool chain, the target's
\* active build configuration, a build configuration's environment.
KitChanged ==
    \E tc \in {None} \cup ToolChains :
        /\ kitToolChain' = tc
        /\ Called("kitChanged", NoCall, NoCall)
        /\ UNCHANGED <<stepVars, storeVars, stepBc, activeBc, environment, buildDirectory, widgetVars>>

ActiveBuildConfigurationChanged ==
    \E bc \in {None} \cup BuildConfigurations :
        /\ activeBc' = bc
        /\ Called("activeBuildConfigurationChanged", NoCall, NoCall)
        /\ UNCHANGED <<stepVars, storeVars, stepBc, kitToolChain, environment, buildDirectory, widgetVars>>

EnvironmentChanged ==
    \E bc \in BuildConfigurations, env \in Environments :
        /\ environment' = [environment EXCEPT ![bc] = env]
        /\ Called("environmentChanged", [bc |-> bc], NoCall)
        /\ UNCHANGED <<stepVars, storeVars, stepBc, activeBc, kitToolChain, buildDirectory, widgetVars>>

NextPersistence ==
    \/ SetBuildTarget
    \/ SetUserArguments
    \/ SetMakeCommand
    \/ SetClean
    \/ ToMap
    \/ FromMap

SpecPersistence == InitPersistence /\ [][NextPersistence]_vars

NextMakeCommand ==
    \/ SetMakeCommand
    \/ EffectiveMakeCommand
    \/ KitChanged
    \/ ActiveBuildConfigurationChanged
    \/ EnvironmentChanged

SpecMakeCommand == InitMakeCommand /\ [][NextMakeCommand]_vars

----------------------------------------------------------------------------
(* Claims about MakeStep *)

\* C9: effectiveMakeCommand returns the command override whenever it is not
\* empty, whatever tool chain and build configuration there are; with an empty
\* override it returns the tool chain's make command for the environment of
\* the step's build configuration, or of the target's active build
\* configuration when the step has none; and the empty string when the tool
\* chain or the build configuration cannot be resolved.
C9_EffectiveMakeCommand ==
    op = "effectiveMakeCommand" =>
        LET command == result.command
        IN  /\ m_makeCommand # "" => command = m_makeCommand
            /\ (m_makeCommand = "" /\ kitToolChain # None /\ stepBc # None)
                    => command = makeCommandOf(kitToolChain, environment[stepBc])
            /\ (m_makeCommand = "" /\ kitToolChain # None /\ stepBc = None /\ activeBc # None)
                    => command = makeCommandOf(kitToolChain, environment[activeBc])
            /\ (m_makeCommand = "" /\ (kitToolChain = None \/ (stepBc = None /\ activeBc = None)))
                    => command = ""

\* C9 witness: no override, no build configuration of the step's own, and the
\* make command is the one for the environment of the active configuration,
\* which differs from the other configuration's.
C9_Witness ==
    /\ op = "effectiveMakeCommand"
    /\ m_makeCommand = ""
    /\ stepBc = None
    /\ activeBc = "bc2"
    /\ kitToolChain = "msvc"
    /\ environment["bc1"] = envA
    /\ environment["bc2"] = envB
    /\ result.command = "nmake.exe"

\* The four keys of a step in the settings map
StepKeys ==
    {"GenericProjectManager.GenericMakeStep.BuildTargets",
     "GenericProjectManager.GenericMakeStep.MakeArguments",
     "GenericProjectManager.GenericMakeStep.MakeCommand",
     "GenericProjectManager.GenericMakeStep.Clean"}

\* C10: fromMap on the map toMap produced of a state the setters reached
\* restores the four fields of that state (the target list with its order, the
\* argument string, the command override, the clean flag), and the map holds
\* the four values under the step id with the four fixed suffixes.
C10_PersistenceRoundTrip ==
    /\ (op = "fromMap" /\ savedFrom.valid) => Fields = savedFrom.fields
    /\ savedFrom.valid =>
        /\ StepKeys \subseteq DOMAIN settings
        /\ Cardinality(StepKeys \cap DOMAIN settings) = 4
        /\ settings["GenericProjectManager.GenericMakeStep.BuildTargets"]
                = StringListVariant(savedFrom.fields.buildTargets)
        /\ settings["GenericProjectManager.GenericMakeStep.MakeArguments"]
                = StringVariant(savedFrom.fields.makeArguments)
        /\ settings["GenericProjectManager.GenericMakeStep.MakeCommand"]
                = StringVariant(savedFrom.fields.makeCommand)
        /\ settings["GenericProjectManager.GenericMakeStep.Clean"]
                = BoolVariant(savedFrom.fields.clean)

\* C10 witness: fromMap has restored a state with two targets in the order
\* they were selected, arguments, an override and the clean flag, from a map
\* that was saved when the fields were these.
C10_Witness ==
    /\ op = "fromMap"
    /\ savedFrom.valid
    /\ m_buildTargets = <<"clean", "all">>
    /\ m_makeArguments = "-j4"
    /\ m_makeCommand = "gmake"
    /\ m_clean = TRUE

----------------------------------------------------------------------------
(* MakeStepConfigWidget: the summary of a MakeStep *)

\* Abi of ToolChain::targetAbi()
targetAbi(tc) ==
    CASE tc = "gcc" -> [os |-> "LinuxOS", osFlavor |-> "GenericLinuxFlavor"]
      [] tc = "msvc" -> [os |-> "WindowsOS", osFlavor |-> "WindowsMsvc2015Flavor"]
      [] tc = "mingw" -> [os |-> "WindowsOS", osFlavor |-> "WindowsMSysFlavor"]

\* Utils::Environment::set and Utils::Environment::value
set(env, key, v) ==
    [k \in DOMAIN env \cup {key} |-> IF k = key THEN v ELSE env[k]]

environmentValue(env, key) == IF key \in DOMAIN env THEN env[key] ELSE ""

\* Utils::Environment::setupEnglishOutput
setupEnglishOutput(env) ==
    set(set(env, "LC_MESSAGES", "en_US.utf8"), "LANGUAGE", "en_US:en")

\* Utils::QtcProcess::addArgs(&args, list): each entry after a space
RECURSIVE addArgs(_, _)
addArgs(args, list) ==
    IF list = <<>> THEN args
    ELSE addArgs((IF args = "" THEN "" ELSE args \o " ") \o Head(list), Tail(list))

\* MakeStep::allArguments
allArguments(step) == addArgs(step.makeArguments, step.buildTargets)

\* Commands given with their directory
AbsoluteCommands == {"/usr/bin/make", "C:/jom/jom.exe"}

\* ProcessParameters::commandMissing: the command is not found through the
\* environment of the parameters
commandMissing(param) ==
    ~(param.command \in AbsoluteCommands \/ param.command \in param.environment.PATH)

\* ProcessParameters::summaryInWorkdir(displayName)
summaryInWorkdir(param, name) ==
    "<b>" \o name \o ":</b> " \o param.command \o " " \o param.arguments
        \o " in " \o param.workingDirectory

\* MakeStep::displayName()
displayName == "Make"

\* ToolChainKitInformation::msgNoToolChainInTarget()
msgNoToolChainInTarget == "No compiler set in kit."

\* QDir::toNativeSeparators on a host whose separator is '/'
toNativeSeparators(path) == path

\* ProcessParameters before its setters are called
NoParam == [command |-> "", arguments |-> "", workingDirectory |-> "", environment |-> <<>>]

\* Mutant: updateSummary() is emitted also when the text is the stored one.
setSummaryTextAlwaysEmits(text, summaryText) ==
    [m_summaryText |-> text, updateSummary |-> TRUE]

\* MakeStepConfigWidget::setSummaryText(text) with this m_summaryText:
\* the text stored afterwards and whether updateSummary() was emitted
setSummaryText(text, summaryText) ==
    IF text = summaryText
    THEN [m_summaryText |-> summaryText, updateSummary |-> FALSE]
    ELSE [m_summaryText |-> text, updateSummary |-> TRUE]

\* Mutant: env is a reference to the environment of the build configuration,
\* which then keeps what updateDetails set.
updateDetailsOnReference(step, project, summaryText) ==
    LET tc == project.kitToolChain
        bc == IF project.stepBc # None THEN project.stepBc ELSE project.activeBc
        make == IF tc # None /\ bc # None
                THEN makeCommandOf(tc, project.environment[bc]) ELSE ""
        label == IF make = "" THEN "Make:"
                 ELSE "Override " \o toNativeSeparators(make) \o ":"
        Returned(summary, outcome, param) ==
            [makeLabel |-> label,
             m_summaryText |-> summary.m_summaryText,
             updateSummary |-> summary.updateSummary,
             outcome |-> outcome,
             param |-> param,
             environment |-> IF outcome \in {"commandMissing", "summary"}
                             THEN [project.environment EXCEPT ![bc] = param.environment]
                             ELSE project.environment]
    IN  IF tc = None
        THEN Returned(setSummaryText("<b>Make:</b> " \o msgNoToolChainInTarget, summaryText),
                      "noToolChain", NoParam)
        ELSE IF bc = None
        THEN Returned(setSummaryText("<b>Make:</b> No build configuration.", summaryText),
                      "noBuildConfiguration", NoParam)
        ELSE
        LET copy == setupEnglishOutput(project.environment[bc])
            env == IF step.makeCommand = ""
                      /\ targetAbi(tc).os = "WindowsOS"
                      /\ targetAbi(tc).osFlavor # "WindowsMSysFlavor"
                   THEN set(copy, "MAKEFLAGS", "L" \o environmentValue(copy, "MAKEFLAGS"))
                   ELSE copy
            param == [command |-> effectiveMakeCommand(step, project),
                      arguments |-> allArguments(step),
                      workingDirectory |-> project.buildDirectory[bc],
                      environment |-> env]
        IN  IF commandMissing(param)
            THEN Returned(setSummaryText("<b>Make:</b> " \o param.command
                                             \o " not found in the environment.",
                                         summaryText),
                          "commandMissing", param)
            ELSE Returned(setSummaryText(summaryInWorkdir(param, displayName), summaryText),
                          "summary", param)

\* MakeStepConfigWidget::updateDetails, for a step with these fields in this
\* project and this stored summary: the label, the summary, the parameters it
\* built, and the environments of the build configurations when it returns
updateDetails(step, project, summaryText) ==
    LET tc == project.kitToolChain
        bc == IF project.stepBc # None THEN project.stepBc ELSE project.activeBc
        make == IF tc # None /\ bc # None
                THEN makeCommandOf(tc, project.environment[bc]) ELSE ""
        label == IF make = "" THEN "Make:"
                 ELSE "Override " \o toNativeSeparators(make) \o ":"
        Returned(summary, outcome, param) ==
            [makeLabel |-> label,
             m_summaryText |-> summary.m_summaryText,
             updateSummary |-> summary.updateSummary,
             outcome |-> outcome,
             param |-> param,
             environment |-> project.environment]
    IN  IF tc = None
        THEN Returned(setSummaryText("<b>Make:</b> " \o msgNoToolChainInTarget, summaryText),
                      "noToolChain", NoParam)
        ELSE IF bc = None
        THEN Returned(setSummaryText("<b>Make:</b> No build configuration.", summaryText),
                      "noBuildConfiguration", NoParam)
        ELSE
        LET copy == setupEnglishOutput(project.environment[bc])
            env == IF step.makeCommand = ""
                      /\ targetAbi(tc).os = "WindowsOS"
                      /\ targetAbi(tc).osFlavor # "WindowsMSysFlavor"
                   THEN set(copy, "MAKEFLAGS", "L" \o environmentValue(copy, "MAKEFLAGS"))
                   ELSE copy
            param == [command |-> effectiveMakeCommand(step, project),
                      arguments |-> allArguments(step),
                      workingDirectory |-> project.buildDirectory[bc],
                      environment |-> env]
        IN  IF commandMissing(param)
            THEN Returned(setSummaryText("<b>Make:</b> " \o param.command
                                             \o " not found in the environment.",
                                         summaryText),
                          "commandMissing", param)
            ELSE Returned(setSummaryText(summaryInWorkdir(param, displayName), summaryText),
                          "summary", param)

\* BuildConfiguration::isActive() of a build configuration of this target
isActive(bc, project) == bc = project.activeBc

\* What a handler leaves behind: the widget and the environments as
\* updateDetails returned them, and the record of the call
Updated(name, in, r) ==
    /\ m_summaryText' = r.m_summaryText
    /\ makeLabel' = r.makeLabel
    /\ environment' = r.environment
    /\ Called(name, in, [updated |-> TRUE, updateSummary |-> r.updateSummary,
                         outcome |-> r.outcome, param |-> r.param])

\* A handler that returned without calling updateDetails
NotUpdated(name, in, env) ==
    /\ environment' = env
    /\ Called(name, in, [updated |-> FALSE, updateSummary |-> FALSE,
                         outcome |-> "none", param |-> NoParam])
    /\ UNCHANGED widgetVars

\* MakeStepConfigWidget::MakeStepConfigWidget: the widget of a new step, after
\* the updateDetails() of the constructor
InitWidget ==
    /\ qtNoDebug = FALSE
    /\ pc = "idle"
    /\ \E buildTarget \in {""} \cup AvailableTargets : Constructed(buildTarget)
    /\ stepBc \in {None, "bc1"}
    /\ activeBc \in {None} \cup BuildConfigurations
    /\ stepBc # None => activeBc # None    \* a target with build configurations has an active one
    /\ kitToolChain \in {None} \cup ToolChains
    /\ environment \in [BuildConfigurations -> Environments]
    /\ buildDirectory \in [BuildConfigurations -> BuildDirectories]
    /\ LET r == updateDetails(Fields, Project, "")
       IN  /\ m_summaryText = r.m_summaryText
           /\ makeLabel = r.makeLabel
           /\ op = "MakeStepConfigWidget"
           /\ input = NoCall
           /\ result = [updated |-> TRUE, updateSummary |-> r.updateSummary,
                        outcome |-> r.outcome, param |-> r.param]

\* MakeStepConfigWidget::itemChanged
ItemChanged ==
    \E target \in AvailableTargets, on \in BOOLEAN :
        LET step == [Fields EXCEPT !.buildTargets = setBuildTarget(target, on)]
        IN  /\ m_buildTargets' = step.buildTargets
            /\ Updated("itemChanged", [target |-> target, on |-> on],
                       updateDetails(step, Project, m_summaryText))
            /\ UNCHANGED <<m_makeArguments, m_makeCommand, m_clean, storeVars,
                           stepBc, activeBc, kitToolChain, buildDirectory>>

\* MakeStepConfigWidget::makeLineEditTextEdited
MakeLineEditTextEdited ==
    \E rawPath \in MakeCommands :
        LET step == [Fields EXCEPT !.makeCommand = rawPath]
        IN  /\ m_makeCommand' = step.makeCommand
            /\ Updated("makeLineEditTextEdited", [rawPath |-> rawPath],
                       updateDetails(step, Project, m_summaryText))
            /\ UNCHANGED <<m_buildTargets, m_makeArguments, m_clean, storeVars,
                           stepBc, activeBc, kitToolChain, buildDirectory>>

\* MakeStepConfigWidget::makeArgumentsLineEditTextEdited
MakeArgumentsLineEditTextEdited ==
    \E text \in MakeArguments :
        LET step == [Fields EXCEPT !.makeArguments = text]
        IN  /\ m_makeArguments' = step.makeArguments
            /\ Updated("makeArgumentsLineEditTextEdited", [text |-> text],
                       updateDetails(step, Project, m_summaryText))
            /\ UNCHANGED <<m_buildTargets, m_makeCommand, m_clean, storeVars,
                           stepBc, activeBc, kitToolChain, buildDirectory>>

\* ProjectExplorerPlugin::settingsChanged, connected to updateDetails
SettingsChanged ==
    /\ Updated("settingsChanged", NoCall, updateDetails(Fields, Project, m_summaryText))
    /\ UNCHANGED <<stepVars, storeVars, stepBc, activeBc, kitToolChain, buildDirectory>>

\* Target::kitChanged, connected to updateDetails: the kit has another tool
\* chain, or none
WidgetKitChanged ==
    \E tc \in {None} \cup ToolChains :
        LET project == [Project EXCEPT !.kitToolChain = tc]
        IN  /\ kitToolChain' = tc
            /\ Updated("kitChanged", [tc |-> tc],
                       updateDetails(Fields, project, m_summaryText))
            /\ UNCHANGED <<stepVars, storeVars, stepBc, activeBc, buildDirectory>>

\* BuildConfiguration::environmentChanged of a build configuration of the
\* project, and the lambda subscribed to it
WidgetEnvironmentChanged ==
    \E bc \in BuildConfigurations, env \in Environments :
        LET project == [Project EXCEPT !.environment[bc] = env]
        IN  /\ environment[bc] # env
            /\ IF isActive(bc, project)
               THEN Updated("environmentChanged", [bc |-> bc, env |-> env],
                            updateDetails(Fields, project, m_summaryText))
               ELSE NotUpdated("environmentChanged", [bc |-> bc, env |-> env],
                               project.environment)
            /\ UNCHANGED <<stepVars, storeVars, stepBc, activeBc, kitToolChain,
                           buildDirectory>>

\* BuildConfiguration::buildDirectoryChanged of a build configuration of the
\* project, and the lambda subscribed to it
WidgetBuildDirectoryChanged ==
    \E bc \in BuildConfigurations, dir \in BuildDirectories :
        LET project == [Project EXCEPT !.buildDirectory[bc] = dir]
        IN  /\ buildDirectory[bc] # dir
            /\ buildDirectory' = project.buildDirectory
            /\ IF isActive(bc, project)
               THEN Updated("buildDirectoryChanged", [bc |-> bc],
                            updateDetails(Fields, project, m_summaryText))
               ELSE NotUpdated("buildDirectoryChanged", [bc |-> bc], project.environment)
            /\ UNCHANGED <<stepVars, storeVars, stepBc, activeBc, kitToolChain>>

\* Project::activeProjectConfigurationChanged(pc) and the lambda connected to
\* it: another build configuration of the target is the active one, or none
WidgetActiveProjectConfigurationChanged ==
    \E bc \in {None} \cup BuildConfigurations :
        LET project == [Project EXCEPT !.activeBc = bc]
        IN  /\ activeBc # bc
            /\ stepBc # None => bc # None
            /\ activeBc' = bc
            /\ IF bc # None /\ isActive(bc, project)
               THEN Updated("activeProjectConfigurationChanged", [bc |-> bc],
                            updateDetails(Fields, project, m_summaryText))
               ELSE NotUpdated("activeProjectConfigurationChanged", [bc |-> bc],
                               project.environment)
            /\ UNCHANGED <<stepVars, storeVars, stepBc, kitToolChain, buildDirectory>>

NextWidget ==
    \/ ItemChanged
    \/ MakeLineEditTextEdited
    \/ MakeArgumentsLineEditTextEdited
    \/ SettingsChanged
    \/ WidgetKitChanged
    \/ WidgetEnvironmentChanged
    \/ WidgetBuildDirectoryChanged
    \/ WidgetActiveProjectConfigurationChanged

SpecWidget == InitWidget /\ [][NextWidget]_vars

----------------------------------------------------------------------------
(* Claims about MakeStepConfigWidget *)

\* The build configuration updateDetails derives the summary from
DerivingBc == IF stepBc # None THEN stepBc ELSE activeBc

\* The summary of the step as its inputs are now
DerivedSummary == updateDetails(Fields, Project, m_summaryText).m_summaryText

\* Handlers of a user edit of targets, command override or arguments, and of a
\* change of the kit
EditsAndKit ==
    {"itemChanged", "makeLineEditTextEdited", "makeArgumentsLineEditTextEdited",
     "kitChanged"}

\* C11: once the widget has handled a change of the kit's tool chain, of the
\* environment or the build directory of the build configuration the summary
\* is derived from (the step's own one also when it is not the active one),
\* or a user edit of targets, arguments or command override, the stored
\* summary is the summary derived from the inputs as they are then.
C11_SummaryNeverStale ==
    (\/ op \in EditsAndKit
     \/ (op \in {"environmentChanged", "buildDirectoryChanged"} /\ input.bc = DerivingBc))
        => m_summaryText = DerivedSummary

\* The command the summary shows when tool chain and build configuration
\* resolve: the override, else the tool chain's make command
ShownCommand ==
    IF m_makeCommand # "" THEN m_makeCommand
    ELSE makeCommandOf(kitToolChain, environment[DerivingBc])

\* The one of the four texts that the inputs call for
ExpectedSummary ==
    IF kitToolChain = None
    THEN "<b>Make:</b> " \o msgNoToolChainInTarget
    ELSE IF DerivingBc = None
    THEN "<b>Make:</b> No build configuration."
    ELSE IF ~(ShownCommand \in AbsoluteCommands
                \/ ShownCommand \in environment[DerivingBc].PATH)
    THEN "<b>Make:</b> " \o ShownCommand \o " not found in the environment."
    ELSE "<b>Make:</b> " \o ShownCommand \o " " \o allArguments(Fields)
            \o " in " \o buildDirectory[DerivingBc]

\* The handler that ran last called updateDetails, which returned after one
\* of its four setSummaryText calls with the text the inputs call for
OneOfFourOutcomes ==
    result.updated =>
        /\ result.outcome \in {"noToolChain", "noBuildConfiguration", "commandMissing",
                                "summary"}
        /\ m_summaryText = ExpectedSummary

\* C12: updateDetails always returns with the summary set to one of four
\* texts, decided in this order: the no-tool-chain message when the kit has no
\* tool chain (also with a command override set), else 'No build
\* configuration.', else '<command> not found in the environment.' when the
\* effective command is missing, else the summary of command, arguments and
\* working directory; and updateSummary is emitted exactly when the stored
\* text changes.
C12_UpdateDetailsOutcomes ==
    /\ OneOfFourOutcomes
    /\ [][/\ OneOfFourOutcomes'
          /\ result'.updateSummary <=> (m_summaryText' # m_summaryText)]_vars

\* C12 witness: the user typed a command override while the kit has no tool
\* chain; the summary is still the no-tool-chain message and nothing was
\* emitted.
C12_Witness ==
    /\ op = "makeLineEditTextEdited"
    /\ result.updated
    /\ m_makeCommand = "gmake"
    /\ kitToolChain = None
    /\ m_summaryText = "<b>Make:</b> No compiler set in kit."
    /\ ~result.updateSummary

\* The kit's tool chain targets Windows, with another flavor than MSys
TargetsWindowsNotMSys ==
    /\ kitToolChain # None
    /\ targetAbi(kitToolChain).os = "WindowsOS"
    /\ targetAbi(kitToolChain).osFlavor # "WindowsMSysFlavor"

\* updateDetails got as far as the environment of the parameters, and their
\* MAKEFLAGS is the build configuration's value, with one 'L' in front exactly
\* when there is no override and the tool chain targets Windows without MSys
MakeFlagsOfSummary ==
    result.outcome \in {"commandMissing", "summary"} =>
        LET own == environmentValue(environment[DerivingBc], "MAKEFLAGS")
            used == environmentValue(result.param.environment, "MAKEFLAGS")
        IN  used = IF m_makeCommand = "" /\ TargetsWindowsNotMSys
                   THEN "L" \o own ELSE own

\* No handler changes the environment of a build configuration; after
\* environmentChanged each build configuration has the environment the event
\* brought
EnvironmentKept ==
    IF op' = "environmentChanged"
    THEN environment' = [environment EXCEPT ![input'.bc] = input'.env]
    ELSE environment' = environment

\* C14: the MAKEFLAGS the summary is derived with carries one 'L' in front of
\* the build configuration's value exactly when the command override is empty
\* and the tool chain targets Windows with a flavor other than MSys; the
\* prefix goes to a copy, so updateDetails leaves the environment of the
\* build configuration as it was, and however often the summary is re-derived
\* there is exactly one added 'L'.
C14_MakeFlagsPrefixOnCopy ==
    /\ MakeFlagsOfSummary
    /\ [][MakeFlagsOfSummary' /\ EnvironmentKept]_vars

\* C14 witness: a re-derivation on settingsChanged, after the constructor and
\* an edit of the arguments, for an MSVC tool chain without override whose
\* build configuration has MAKEFLAGS "k": the parameters got "Lk", the build
\* configuration still has "k".
C14_Witness ==
    /\ op = "settingsChanged"
    /\ result.outcome \in {"commandMissing", "summary"}
    /\ kitToolChain = "msvc"
    /\ m_makeCommand = ""
    /\ m_makeArguments = "-j4"
    /\ environment[DerivingBc].MAKEFLAGS = "k"
    /\ result.param.environment.MAKEFLAGS = "Lk"

----------------------------------------------------------------------------
(* MakeStep restored from the settings of a project *)

\* const QVariantMap &map of fromMap: maps as a settings file holds them, with
\* any list of targets under the target key, and a map without the keys
StoredMaps ==
    {<<>>} \cup
    {insert(insert(insert(insert(BaseMap,
        withSuffix(BUILD_TARGETS_SUFFIX), StringListVariant(targets)),
        withSuffix(MAKE_ARGUMENTS_SUFFIX), StringVariant("")),
        withSuffix(MAKE_COMMAND_SUFFIX), StringVariant("")),
        withSuffix(CLEAN_SUFFIX), BoolVariant(FALSE))
     : targets \in SeqsUpTo(AvailableTargets, MaxTargets)}

\* fromMap(map) for a map read from the settings file
FromStoredMap ==
    \E map \in StoredMaps :
        /\ m_buildTargets' = fromMap(map).buildTargets
        /\ m_makeArguments' = fromMap(map).makeArguments
        /\ m_makeCommand' = fromMap(map).makeCommand
        /\ m_clean' = fromMap(map).clean
        /\ settings' = map
        /\ savedFrom' = NotSaved
        /\ Called("fromMap", [map |-> map], NoCall)
        /\ UNCHANGED <<projectVars, widgetVars>>

NextBuildTargets ==
    \/ SetBuildTarget
    \/ FromStoredMap

SpecBuildTargets == InitPersistence /\ [][NextBuildTargets]_vars

----------------------------------------------------------------------------
(* Claims about the target list *)

\* The entries of a list other than target, in their order
Others(list, target) == SelectSeq(list, LAMBDA x : x # target)

\* C13: after setBuildTarget(t, on), in a state reached by construction,
\* setBuildTarget and fromMap, buildsTarget(t) is on; the other targets are
\* the same, in the same order; and setBuildTarget(t, true) of a selected t
\* leaves the list as it was.
C13_SetBuildTarget ==
    op = "setBuildTarget" =>
        /\ buildsTarget(input.target) = input.on
        /\ Others(m_buildTargets, input.target) = Others(result.old, input.target)
        /\ (input.on /\ contains(result.old, input.target)) => m_buildTargets = result.old

----------------------------------------------------------------------------
(* BazaarClient::diffArguments and logArguments *)

\* Values of the extra options of a diff or log: strings and string lists as
\* the parameter widgets insert them, and values of other types
DiffOptionValues ==
    {StringVariant("--diff-options=-w"), StringVariant("-r1"),
     StringListVariant(<<>>), StringListVariant(<<"-r", "2">>),
     BoolVariant(TRUE), InvalidVariant}

\* ExtraCommandOptions of a diff or log: a map from the keys 1..k to values,
\* iterated in ascending order of the key
DiffExtraOptions == SeqsUpTo(DiffOptionValues, MaxOptions)

RECURSIVE ForeachExtraOption(_, _, _)

\* Mutant: a value of another type ends the loop.
ForeachExtraOptionUntilOtherType(extraOptions, i, args) ==
    IF i > Len(extraOptions) THEN args
    ELSE LET extraOption == extraOptions[i]
         IN  CASE extraOption.type = "String" ->
                    ForeachExtraOption(extraOptions, i + 1,
                                       Append(args, toString(extraOption)))
               [] extraOption.type = "StringList" ->
                    ForeachExtraOption(extraOptions, i + 1,
                                       args \o toStringList(extraOption))
               [] OTHER -> args

\* foreach (const QVariant &extraOption, extraOptions) of diffArguments, from
\* the i-th entry on: args when the loop is left
ForeachExtraOption(extraOptions, i, args) ==
    IF i > Len(extraOptions) THEN args
    ELSE LET extraOption == extraOptions[i]
         IN  CASE extraOption.type = "String" ->
                    ForeachExtraOption(extraOptions, i + 1,
                                       Append(args, toString(extraOption)))
               [] extraOption.type = "StringList" ->
                    ForeachExtraOption(extraOptions, i + 1,
                                       args \o toStringList(extraOption))
               [] OTHER ->   \* QTC_ASSERT(false, continue; ): a message, next value
                    ForeachExtraOption(extraOptions, i + 1, args)

\* BazaarClient::diffArguments
diffArguments(files, extraOptions) ==
    LET args == ForeachExtraOption(extraOptions, 1, <<>>)
    IN  IF files # <<>> THEN args \o files ELSE args

\* BazaarClient::logArguments
logArguments(files, extraOptions) == diffArguments(files, extraOptions)

DiffArguments ==
    /\ pc = "idle"
    /\ \E files \in FileLists, o \in DiffExtraOptions :
        /\ input' = [files |-> files, opts |-> o]
        /\ result' = [args |-> diffArguments(files, o)]
    /\ op' = "diff"
    /\ pc' = "done"
    /\ UNCHANGED <<qtNoDebug, makeVars>>

LogArguments ==
    /\ pc = "idle"
    /\ \E files \in FileLists, o \in DiffExtraOptions :
        /\ input' = [files |-> files, opts |-> o]
        /\ result' = [args |-> logArguments(files, o)]
    /\ op' = "log"
    /\ pc' = "done"
    /\ UNCHANGED <<qtNoDebug, makeVars>>

NextDiff ==
    \/ DiffArguments
    \/ LogArguments
    \/ Return

SpecDiff == InitArguments /\ [][NextDiff]_vars

----------------------------------------------------------------------------
(* Claims about diffArguments and logArguments *)

\* What one value contributes: a string itself, a string list its elements,
\* any other value nothing
TokensOf(v) ==
    IF v.type = "String" THEN <<v.v>>
    ELSE IF v.type = "StringList" THEN v.v
    ELSE <<>>

\* The contributions of the values of a map, in the order of its keys
RECURSIVE Flattened(_)
Flattened(o) == IF o = <<>> THEN <<>> ELSE TokensOf(Head(o)) \o Flattened(Tail(o))

\* C15: diffArguments returns the values of the extra options flattened in
\* the order of the map (a string gives one token, a string list all its
\* elements in order, a value of another type nothing, and the values after
\* it are still processed), followed by all files; logArguments returns the
\* same list for the same input.
C15_DiffArgumentsFlatten ==
    op \in {"diff", "log"} => result.args = Flattened(input.opts) \o input.files

\* C15 witness: logArguments of a map whose first value is a bool and whose
\* second is a string list, with two files: the bool gave nothing, the list
\* after it its two elements, then the files.
C15_Witness ==
    /\ op = "log"
    /\ input.opts = <<BoolVariant(TRUE), StringListVariant(<<"-r", "2">>)>>
    /\ input.files = <<"b.txt", "a.txt">>
    /\ result.args = <<"-r", "2", "b.txt", "a.txt">>

====
